---- MODULE Spec2Model ----
(***************************************************************************)
(* Model of metamuses-api/scripts/download-models.py: the command          *)
(* dispatcher (main), download_preset, download_model and the calls they   *)
(* make on the filesystem, the terminal and the hub client library.        *)
(* Python strings read from the terminal are sequences of one-character    *)
(* strings; every other Python string is a TLA+ string.                    *)
(***************************************************************************)
EXTENDS FiniteSets, Integers, Sequences, TLC

\* ---------------------------------------------------------------- bounds
MaxKeys == 2        \* positional model keys on the command line
MaxRawLen == 2      \* characters typed at the "Overwrite? (y/N)" prompt

\* ------------------------------------------------------- Python helpers
\* Python's None, for the Optional[str] arguments.
None == "<None>"

\* bool(x) of an Optional[str]: None and the empty string are false.
Truthy(x) == x # None /\ x # ""

\* Python's `a or b` on Optional[str].
PyOr(a, b) == IF Truthy(a) THEN a ELSE b

IsSpace(c) == c = " "

RECURSIVE LStrip(_)
LStrip(s) == IF s # <<>> /\ IsSpace(Head(s)) THEN LStrip(Tail(s)) ELSE s

RECURSIVE RStrip(_)
RStrip(s) ==
    IF s # <<>> /\ IsSpace(s[Len(s)]) THEN RStrip(SubSeq(s, 1, Len(s) - 1)) ELSE s

\* str.strip()
Strip(s) == RStrip(LStrip(s))

LowerChar(c) == IF c = "Y" THEN "y" ELSE IF c = "N" THEN "n" ELSE c

\* str.lower()
Lower(s) == [i \in 1..Len(s) |-> LowerChar(s[i])]

\* ---------------------------------------------------------- static data
MODELS ==
    [k \in {"qwen2.5-1.5b-q5", "phi3-mini-q5", "qwen2.5-7b-q5", "llama3.1-8b-q5",
            "qwen3-4b-q4", "qwen3-4b-q5", "qwen3-4b-q6", "qwen3-4b-q8",
            "qwen3-4b-f16", "qwen2.5-72b-q4", "deepseek-coder-v2"} |->
        CASE k = "qwen2.5-1.5b-q5" ->
               [repo_id |-> "Qwen/Qwen2.5-1.5B-Instruct-GGUF",
                filename |-> "qwen2.5-1.5b-instruct-q5_k_m.gguf"]
          [] k = "phi3-mini-q5" ->
               [repo_id |-> "microsoft/Phi-3-mini-4k-instruct-gguf",
                filename |-> "Phi-3-mini-4k-instruct-q5_k_m.gguf"]
          [] k = "qwen2.5-7b-q5" ->
               [repo_id |-> "Qwen/Qwen2.5-7B-Instruct-GGUF",
                filename |-> "qwen2.5-7b-instruct-q5_k_m.gguf"]
          [] k = "llama3.1-8b-q5" ->
               [repo_id |-> "lmstudio-community/Meta-Llama-3.1-8B-Instruct-GGUF",
                filename |-> "Meta-Llama-3.1-8B-Instruct-Q5_K_M.gguf"]
          [] k = "qwen3-4b-q4" ->
               [repo_id |-> "unsloth/Qwen3-4B-Instruct-2507-GGUF",
                filename |-> "Qwen3-4B-Instruct-2507-Q4_K_M.gguf"]
          [] k = "qwen3-4b-q5" ->
               [repo_id |-> "unsloth/Qwen3-4B-Instruct-2507-GGUF",
                filename |-> "Qwen3-4B-Instruct-2507-Q5_K_M.gguf"]
          [] k = "qwen3-4b-q6" ->
               [repo_id |-> "unsloth/Qwen3-4B-Instruct-2507-GGUF",
                filename |-> "Qwen3-4B-Instruct-2507-Q6_K.gguf"]
          [] k = "qwen3-4b-q8" ->
               [repo_id |-> "unsloth/Qwen3-4B-Instruct-2507-GGUF",
                filename |-> "Qwen3-4B-Instruct-2507-Q8_0.gguf"]
          [] k = "qwen3-4b-f16" ->
               [repo_id |-> "unsloth/Qwen3-4B-Instruct-2507-GGUF",
                filename |-> "Qwen3-4B-Instruct-2507-F16.gguf"]
          [] k = "qwen2.5-72b-q4" ->
               [repo_id |-> "Qwen/Qwen2.5-72B-Instruct-GGUF",
                filename |-> "qwen2.5-72b-instruct-q4_k_m.gguf"]
          [] k = "deepseek-coder-v2" ->
               [repo_id |-> "deepseek-ai/DeepSeek-Coder-V2-Lite-Instruct",
                filename |-> "deepseek-coder-v2-lite-instruct-q5_k_m.gguf"]]

PRESETS ==
    [p \in {"minimal", "recommended", "production", "qwen3-all", "qwen3-best"} |->
        CASE p = "minimal" -> <<"qwen3-4b-q5">>
          [] p = "recommended" -> <<"qwen2.5-1.5b-q5", "qwen3-4b-q5", "qwen2.5-7b-q5">>
          [] p = "production" ->
               <<"qwen2.5-1.5b-q5", "qwen3-4b-q5", "qwen2.5-7b-q5", "deepseek-coder-v2">>
          [] p = "qwen3-all" ->
               <<"qwen3-4b-q4", "qwen3-4b-q5", "qwen3-4b-q6", "qwen3-4b-q8">>
          [] p = "qwen3-best" -> <<"qwen3-4b-q6", "qwen3-4b-q8">>]

\* ------------------------------------------------- inputs of the model
\* Values the command line, the environment, the terminal and the disk are
\* drawn from.
KeyChoices == {"qwen3-4b-q5", "no-such-model"}
PresetChoices == {None, "", "minimal", "qwen3-best", "no-such-preset"}
BrowseChoices == {None, "", "Qwen/Qwen2.5-7B-Instruct-GGUF"}
TokenChoices == {None, "", "hf_cli"}
EnvChoices == {None, "hf_env"}
DirChoices == {"./models"}
Chars == {"y", "Y", "n", " "}
FetchOutcomes == {"ok", "raise"}

RECURSIVE SeqsUpTo(_, _)
SeqsUpTo(S, n) ==
    IF n = 0 THEN {<<>>}
    ELSE LET shorter == SeqsUpTo(S, n - 1)
         IN  shorter \cup {Append(s, x) : s \in {t \in shorter : Len(t) = n - 1}, x \in S}

AllFiles == {MODELS[k].filename : k \in DOMAIN MODELS}
\* Files that may be on disk before the run.
OldFiles == {MODELS[k].filename : k \in {"qwen3-4b-q5", "qwen3-4b-q6"}}

VARIABLES
    args,              \* argparse namespace
    env,               \* os.environ.get("HF_TOKEN")
    HF_HUB_AVAILABLE,  \* module-level import result
    fs,                \* filename -> "absent" | "old" | "new", inside models_dir
    dirMade,           \* models_dir.mkdir was called
    pc,                \* position in main / download_preset / download_model
    exitCode,          \* process exit status, -1 while running
    token,             \* main's local `token`
    queue,             \* the list the current for-loop iterates over
    idx,               \* 1-based position of that loop
    success_count,
    fail_count,
    model_key,         \* download_model's parameter
    existed,           \* value of output_path.exists() in the current call
    raw,               \* what input() returned in the current call
    response,          \* download_model's local `response`
    log                \* calls made so far, in order

vars == <<args, env, HF_HUB_AVAILABLE, fs, dirMade, pc, exitCode, token, queue, idx,
          success_count, fail_count, model_key, existed, raw, response, log>>

\* One entry of the call log.
Ev(op, key, repo, file, tok, ret) ==
    [op |-> op, key |-> key, repo |-> repo, file |-> file, tok |-> tok, ret |-> ret]

ArgSpace ==
    [list : BOOLEAN, presets : BOOLEAN, browse : BrowseChoices, preset : PresetChoices,
     models : SeqsUpTo(KeyChoices, MaxKeys), token : TokenChoices, force : BOOLEAN,
     dir : DirChoices]

Init ==
    /\ args \in ArgSpace
    /\ env \in EnvChoices
    /\ HF_HUB_AVAILABLE \in BOOLEAN
    /\ fs \in {[f \in AllFiles |-> IF f \in S THEN "old" ELSE "absent"] : S \in SUBSET OldFiles}
    /\ dirMade = FALSE
    /\ pc = "check_hub"
    /\ exitCode = -1
    /\ token = None
    /\ queue = <<>>
    /\ idx = 1
    /\ success_count = 0
    /\ fail_count = 0
    /\ model_key = None
    /\ existed = FALSE
    /\ raw = <<>>
    /\ response = <<>>
    /\ log = <<>>

\* sys.exit(code), or main returning (code 0).
Exit(code) == pc' = "exited" /\ exitCode' = code

\* Mutant: the availability check is left out.
HubMissing_Never == FALSE

\* `not HF_HUB_AVAILABLE`
HubMissing == ~HF_HUB_AVAILABLE

\* if not HF_HUB_AVAILABLE: ... sys.exit(1)
CheckHub ==
    /\ pc = "check_hub"
    /\ IF HubMissing THEN Exit(1) ELSE pc' = "dispatch" /\ exitCode' = exitCode
    /\ UNCHANGED <<args, env, HF_HUB_AVAILABLE, fs, dirMade, token, queue, idx,
                   success_count, fail_count, model_key, existed, raw, response, log>>

\* The if-chain of main that picks what runs.
Dispatch ==
    IF args.list THEN "list"
    ELSE IF args.presets THEN "presets"
    ELSE IF Truthy(args.browse) THEN "browse"
    ELSE IF Truthy(args.preset) THEN "preset"
    ELSE IF args.models # <<>> THEN "models"
    ELSE "error"

\* if args.list: print_models_table(); return
HandleList ==
    /\ pc = "dispatch"
    /\ Dispatch = "list"
    /\ log' = Append(log, Ev("print_models_table", None, None, None, None, None))
    /\ Exit(0)
    /\ UNCHANGED <<args, env, HF_HUB_AVAILABLE, fs, dirMade, token, queue, idx,
                   success_count, fail_count, model_key, existed, raw, response>>

\* if args.presets: print_presets(); return
HandlePresets ==
    /\ pc = "dispatch"
    /\ Dispatch = "presets"
    /\ log' = Append(log, Ev("print_presets", None, None, None, None, None))
    /\ Exit(0)
    /\ UNCHANGED <<args, env, HF_HUB_AVAILABLE, fs, dirMade, token, queue, idx,
                   success_count, fail_count, model_key, existed, raw, response>>

\* The token main hands to list_repo_files_safe.
BrowseToken == args.token

\* if args.browse: list_repo_files_safe(args.browse, args.token); return
\* list_repo_files may raise; list_repo_files_safe catches it and returns [].
HandleBrowse ==
    /\ pc = "dispatch"
    /\ Dispatch = "browse"
    /\ \E outcome \in FetchOutcomes :
         log' = Append(log, Ev("list_repo_files", None, args.browse, None, BrowseToken,
                               outcome))
    /\ Exit(0)
    /\ UNCHANGED <<args, env, HF_HUB_AVAILABLE, fs, dirMade, token, queue, idx,
                   success_count, fail_count, model_key, existed, raw, response>>

\* token = args.token or os.environ.get("HF_TOKEN")
DownloadToken == PyOr(args.token, env)

\* token = ...; models_dir.mkdir(...); success_count = 0; fail_count = 0
Setup ==
    /\ pc = "dispatch"
    /\ Dispatch \in {"preset", "models", "error"}
    /\ token' = DownloadToken
    /\ dirMade' = TRUE
    /\ success_count' = 0
    /\ fail_count' = 0
    /\ log' = Append(log, Ev("mkdir", None, None, args.dir, None, None))
    /\ pc' = "select"
    /\ UNCHANGED <<args, env, HF_HUB_AVAILABLE, fs, exitCode, queue, idx, model_key,
                   existed, raw, response>>

\* Mutant: an unknown preset is counted as one failure.
UnknownPresetCounts_OneFailure == <<0, 1>>

\* `return 0, 0` for a name that is not in PRESETS
UnknownPresetCounts == <<0, 0>>

\* download_preset up to its for-loop: an unknown name returns (0, 0).
DownloadPreset ==
    /\ pc = "select"
    /\ Dispatch = "preset"
    /\ log' = Append(log, Ev("download_preset", args.preset, None, None, None, None))
    /\ IF args.preset \notin DOMAIN PRESETS
       THEN /\ pc' = "summary"
            /\ success_count' = UnknownPresetCounts[1]
            /\ fail_count' = UnknownPresetCounts[2]
            /\ UNCHANGED <<queue, idx>>
       ELSE /\ queue' = PRESETS[args.preset]
            /\ idx' = 1
            /\ success_count' = 0
            /\ fail_count' = 0
            /\ pc' = "loop"
    /\ UNCHANGED <<args, env, HF_HUB_AVAILABLE, fs, dirMade, exitCode, token, model_key,
                   existed, raw, response>>

\* elif args.models: for model_key in args.models
DownloadModels ==
    /\ pc = "select"
    /\ Dispatch = "models"
    /\ queue' = args.models
    /\ idx' = 1
    /\ pc' = "loop"
    /\ UNCHANGED <<args, env, HF_HUB_AVAILABLE, fs, dirMade, exitCode, token,
                   success_count, fail_count, model_key, existed, raw, response, log>>

\* else: print("No models specified"); sys.exit(1)
NoModels ==
    /\ pc = "select"
    /\ Dispatch = "error"
    /\ log' = Append(log, Ev("no_models", None, None, None, None, None))
    /\ Exit(1)
    /\ UNCHANGED <<args, env, HF_HUB_AVAILABLE, fs, dirMade, token, queue, idx,
                   success_count, fail_count, model_key, existed, raw, response>>

\* Mutant: the loop stops at the first failure.
NextIdx_AbortOnFailure(ok) == IF ok THEN idx + 1 ELSE Len(queue) + 1

\* Where the for-loop goes after download_model returned `ok`.
NextIdx(ok) == idx + 1

\* download_model returns `ok` to the loop that called it, which counts it; the
\* call's locals `response` and the typed line are gone.
Return(ok, evs) ==
    /\ log' = log \o evs \o
              <<Ev("return", model_key', None, None, None, IF ok THEN "True" ELSE "False")>>
    /\ raw' = <<>>
    /\ response' = <<>>
    /\ success_count' = IF ok THEN success_count + 1 ELSE success_count
    /\ fail_count' = IF ok THEN fail_count ELSE fail_count + 1
    /\ idx' = NextIdx(ok)
    /\ pc' = "loop"

\* model_key not in MODELS
Known(k) == k \in DOMAIN MODELS

\* Mutant: the path models_dir / model_key is probed before the key is looked up.
DmLookup_ProbeFirst ==
    /\ pc = "loop"
    /\ idx <= Len(queue)
    /\ model_key' = queue[idx]
    /\ existed' = FALSE
    /\ LET call == Ev("download_model", queue[idx], None, None, token,
                      IF args.force THEN "force" ELSE "ask")
           probe == Ev("exists", queue[idx], None, queue[idx], None, None)
       IN  IF ~Known(queue[idx])
           THEN Return(FALSE, <<call, probe>>)
           ELSE /\ log' = Append(log, call)
                /\ pc' = "dm_check"
                /\ UNCHANGED <<idx, success_count, fail_count, raw, response>>
    /\ UNCHANGED <<args, env, HF_HUB_AVAILABLE, fs, dirMade, exitCode, token, queue>>

\* download_model, entry: an unknown key returns False at once.
DmLookup ==
    /\ pc = "loop"
    /\ idx <= Len(queue)
    /\ model_key' = queue[idx]
    /\ existed' = FALSE
    /\ LET call == Ev("download_model", queue[idx], None, None, token,
                      IF args.force THEN "force" ELSE "ask")
       IN  IF ~Known(queue[idx])
           THEN Return(FALSE, <<call>>)
           ELSE /\ log' = Append(log, call)
                /\ pc' = "dm_check"
                /\ UNCHANGED <<idx, success_count, fail_count, raw, response>>
    /\ UNCHANGED <<args, env, HF_HUB_AVAILABLE, fs, dirMade, exitCode, token, queue>>

\* output_path = models_dir / filename
Target == MODELS[model_key].filename

\* `output_path.exists() and not force`
AskFirst(exists, force) == exists /\ ~force

\* if output_path.exists() and not force
DmCheck ==
    /\ pc = "dm_check"
    /\ existed' = (fs[Target] # "absent")
    /\ log' = Append(log, Ev("exists", model_key, None, Target, None, None))
    /\ pc' = IF AskFirst(existed', args.force) THEN "dm_prompt" ELSE "dm_fetch"
    /\ UNCHANGED <<args, env, HF_HUB_AVAILABLE, fs, dirMade, exitCode, token, queue, idx,
                   success_count, fail_count, model_key, raw, response>>

\* response = input(...).strip().lower()
Normalise(s) == Lower(Strip(s))

\* Mutant: any answer that starts with y counts as yes.
SaysYes_Prefix(r) == r # <<>> /\ r[1] = "y"

\* `response != 'y'` is false
SaysYes(r) == r = <<"y">>

\* response = input("  Overwrite? (y/N): ").strip().lower()
DmInput ==
    /\ pc = "dm_prompt"
    /\ \E typed \in SeqsUpTo(Chars, MaxRawLen) :
         /\ raw' = typed
         /\ response' = Normalise(typed)
    /\ log' = Append(log, Ev("input", model_key, None, Target, None, None))
    /\ pc' = "dm_answer"
    /\ UNCHANGED <<args, env, HF_HUB_AVAILABLE, fs, dirMade, exitCode, token, queue, idx,
                   success_count, fail_count, model_key, existed>>

\* if response != 'y': return True
\* output_path.unlink()
DmAnswer ==
    /\ pc = "dm_answer"
    /\ model_key' = model_key
    /\ IF ~SaysYes(response)
       THEN /\ Return(TRUE, <<>>)
            /\ fs' = fs
       ELSE /\ log' = Append(log, Ev("unlink", model_key, None, Target, None, None))
            /\ fs' = [fs EXCEPT ![Target] = "absent"]
            /\ pc' = "dm_fetch"
            /\ UNCHANGED <<idx, success_count, fail_count, raw, response>>
    /\ UNCHANGED <<args, env, HF_HUB_AVAILABLE, dirMade, exitCode, token, queue,
                   existed>>

\* Mutant: a failed fetch is tried a second time before giving up.
DmFetch_Retry ==
    /\ pc = "dm_fetch"
    /\ model_key' = model_key
    /\ \E outcome \in FetchOutcomes, second \in FetchOutcomes :
         LET fetch(o) == Ev("hf_hub_download", model_key, MODELS[model_key].repo_id,
                            Target, token, o)
             final == IF outcome = "ok" THEN "ok" ELSE second
         IN  /\ fs' = IF final = "ok" THEN [fs EXCEPT ![Target] = "new"] ELSE fs
             /\ Return(final = "ok",
                       IF outcome = "ok" THEN <<fetch(outcome)>>
                       ELSE <<fetch(outcome), fetch(second)>>)
    /\ UNCHANGED <<args, env, HF_HUB_AVAILABLE, dirMade, exitCode, token, queue,
                   existed>>

\* What download_model returns for each way hf_hub_download can end.
FetchResult(outcome) == outcome = "ok"

\* try: hf_hub_download(...); return True / except Exception: return False
DmFetch ==
    /\ pc = "dm_fetch"
    /\ model_key' = model_key
    /\ \E outcome \in FetchOutcomes :
         /\ fs' = IF outcome = "ok" THEN [fs EXCEPT ![Target] = "new"] ELSE fs
         /\ Return(FetchResult(outcome),
                   <<Ev("hf_hub_download", model_key, MODELS[model_key].repo_id, Target,
                        token, outcome)>>)
    /\ UNCHANGED <<args, env, HF_HUB_AVAILABLE, dirMade, exitCode, token, queue,
                   existed>>

\* The for-loop is exhausted (download_preset returns its counts to main).
LoopDone ==
    /\ pc = "loop"
    /\ idx > Len(queue)
    /\ pc' = "summary"
    /\ UNCHANGED <<args, env, HF_HUB_AVAILABLE, fs, dirMade, exitCode, token, queue, idx,
                   success_count, fail_count, model_key, existed, raw, response, log>>

\* Mutant: the exit status ignores the failures.
ExitStatus_AlwaysZero(fails) == 0

\* sys.exit(0 if fail_count == 0 else 1)
ExitStatus(fails) == IF fails = 0 THEN 0 ELSE 1

\* show_summary(models_dir); print result; sys.exit(...)
Finish ==
    /\ pc = "summary"
    /\ log' = Append(log, Ev("show_summary", None, None, args.dir, None, None))
    /\ Exit(ExitStatus(fail_count))
    /\ UNCHANGED <<args, env, HF_HUB_AVAILABLE, fs, dirMade, token, queue, idx,
                   success_count, fail_count, model_key, existed, raw, response>>

Next ==
    \/ CheckHub
    \/ HandleList
    \/ HandlePresets
    \/ HandleBrowse
    \/ Setup
    \/ DownloadPreset
    \/ DownloadModels
    \/ NoModels
    \/ DmLookup
    \/ DmCheck
    \/ DmInput
    \/ DmAnswer
    \/ DmFetch
    \/ LoopDone
    \/ Finish

Spec == Init /\ [][Next]_vars

\* ------------------------------------------------- reading the call log
Exited == pc = "exited"

\* Positions of the log entries of one kind.
At(op) == {i \in 1..Len(log) : log[i].op = op}

\* The keys download_model was called with, in call order.
CalledKeys ==
    LET calls == SelectSeq(log, LAMBDA e : e.op = "download_model")
    IN  [i \in 1..Len(calls) |-> calls[i].key]

\* The primary actions that have run so far, read off the calls made.
ActionsRun ==
    (IF At("print_models_table") # {} THEN {"list"} ELSE {})
    \cup (IF At("print_presets") # {} THEN {"presets"} ELSE {})
    \cup (IF At("list_repo_files") # {} THEN {"browse"} ELSE {})
    \cup (IF At("download_preset") # {} THEN {"preset"} ELSE {})
    \cup (IF At("download_model") # {} /\ At("download_preset") = {} THEN {"models"} ELSE {})
    \cup (IF At("no_models") # {} THEN {"error"} ELSE {})

Priority == <<"list", "presets", "browse", "preset", "models", "error">>

\* The first action of the priority order whose selector holds.
FirstSelected(sel(_)) ==
    Priority[CHOOSE i \in 1..Len(Priority) :
                 sel(Priority[i]) /\ \A j \in 1..(i - 1) : ~sel(Priority[j])]

\* An option counts as selected as soon as it appears on the command line.
SelectedIfGiven(a) ==
    CASE a = "list" -> args.list
      [] a = "presets" -> args.presets
      [] a = "browse" -> args.browse # None
      [] a = "preset" -> args.preset # None
      [] a = "models" -> args.models # <<>>
      [] a = "error" -> TRUE

\* --browse and --preset count as selected only with a non-empty value.
SelectedIfNonEmpty(a) ==
    CASE a = "list" -> args.list
      [] a = "presets" -> args.presets
      [] a = "browse" -> args.browse # None /\ args.browse # ""
      [] a = "preset" -> args.preset # None /\ args.preset # ""
      [] a = "models" -> args.models # <<>>
      [] a = "error" -> TRUE

\* What the chosen action may and must have done by the time the process ends.
RunsOnly(chosen) ==
    /\ ActionsRun \subseteq {chosen}
    /\ Exited => ActionsRun = {chosen}
    /\ chosen \in {"list", "presets", "browse", "error"} =>
         At("download_model") = {} /\ At("hf_hub_download") = {}
    /\ chosen # "browse" => At("list_repo_files") = {}
    /\ (Exited /\ chosen = "preset" /\ args.preset \in DOMAIN PRESETS) =>
         CalledKeys = PRESETS[args.preset]
    /\ (Exited /\ chosen = "preset" /\ args.preset \notin DOMAIN PRESETS) =>
         CalledKeys = <<>>
    /\ (Exited /\ chosen = "models") => CalledKeys = args.models
    /\ (Exited /\ chosen = "error") => exitCode = 1

\* C1: with the client library available exactly one primary action
\* runs, the first of --list, --presets, --browse, --preset, positional keys,
\* "no models specified" that was given on the command line, and no action of
\* lower priority runs.
C1_PriorityAsGiven == HF_HUB_AVAILABLE => RunsOnly(FirstSelected(SelectedIfGiven))

\* C1 restricted to non-empty values: the same priority order holds when
\* --browse and --preset count as selected only with a non-empty string.
C1_PriorityNonEmpty == HF_HUB_AVAILABLE => RunsOnly(FirstSelected(SelectedIfNonEmpty))

Returned(v) == {i \in At("return") : log[i].ret = v}

\* C2: exit code 0 when every download the preset or key action asked for
\* returned True and for list, presets and browse; 1 when a download returned
\* False, when neither a preset nor a key was given, and when the client
\* library is missing.
C2_ExitCode ==
    Exited =>
      /\ ~HF_HUB_AVAILABLE => exitCode = 1
      /\ (ActionsRun \cap {"list", "presets", "browse"}) # {} => exitCode = 0
      /\ ((ActionsRun \cap {"preset", "models"}) # {} /\ Returned("False") = {}) =>
           exitCode = 0
      /\ Returned("False") # {} => exitCode = 1
      /\ (/\ HF_HUB_AVAILABLE
          /\ ~args.list /\ ~args.presets /\ ~Truthy(args.browse)
          /\ ~Truthy(args.preset) /\ args.models = <<>>) => exitCode = 1

\* C2 witness: a run in which one download succeeded and one failed.
C2_Witness ==
    /\ Exited
    /\ Returned("True") # {}
    /\ Returned("False") # {}
    /\ exitCode = 1

\* C3, as stated: when the target file existed and the download goes on to
\* the fetch (after a "y", or under --force), the file is gone by the time
\* hf_hub_download is called.
C3_RemovedBeforeFetch ==
    (pc = "dm_fetch" /\ existed) => fs[Target] = "absent"

\* The typed line is a single y or Y with nothing but blanks around it.
IsYes(typed) ==
    \E i \in 1..Len(typed) :
        /\ typed[i] \in {"y", "Y"}
        /\ \A j \in 1..Len(typed) : j # i => typed[j] = " "

\* C4: at the overwrite prompt (file exists, no --force) every answer other
\* than y leaves the file as it is, calls no fetch and returns True; y, and
\* only y, deletes the file and goes on to the fetch.
C4_SkipUnlessYes ==
    [][pc = "dm_answer" =>
         IF IsYes(raw)
         THEN /\ fs' = [fs EXCEPT ![Target] = "absent"]
              /\ pc' = "dm_fetch"
              /\ log' = Append(log, Ev("unlink", model_key, None, Target, None, None))
         ELSE /\ fs' = fs
              /\ pc' = "loop"
              /\ success_count' = success_count + 1
              /\ fail_count' = fail_count
              /\ Len(log') = Len(log) + 1
              /\ log'[Len(log')].op = "return"
              /\ log'[Len(log')].ret = "True"]_vars

\* C4 witness: the file existed, the answer was not y, the call returned True
\* right after the prompt and the old file is still there.
C4_Witness ==
    /\ pc = "loop"
    /\ existed
    /\ fs[Target] = "old"
    /\ log[Len(log)].op = "return" /\ log[Len(log)].ret = "True"
    /\ log[Len(log) - 1].op = "input"

\* C5: a call of download_model with a key that is not in MODELS returns False
\* at once: no exists() check, no prompt, no unlink and no fetch is made for it.
C5_UnknownKey ==
    /\ \A i \in At("download_model") :
         log[i].key \notin DOMAIN MODELS =>
           /\ i < Len(log)
           /\ log[i + 1].op = "return"
           /\ log[i + 1].ret = "False"
    /\ \A i \in 1..Len(log) :
         log[i].op \in {"exists", "input", "unlink", "hf_hub_download"} =>
           log[i].key \in DOMAIN MODELS

\* C5 witness: an unknown key was called under --force with a token, and the
\* loop went on.
C5_Witness ==
    /\ \E i \in At("download_model") :
         /\ log[i].key = "no-such-model"
         /\ log[i].ret = "force"
         /\ log[i].tok = "hf_cli"
    /\ fail_count = 1
    /\ Exited

\* C6: download_preset on a known preset calls download_model once per key of
\* the preset, in the preset's order, whatever the earlier calls returned, and
\* its counts add up to the length of the preset.
C6_PresetRunsAll ==
    \A p \in At("download_preset") :
        log[p].key \in DOMAIN PRESETS =>
          LET keys == PRESETS[log[p].key]
          IN  /\ Len(CalledKeys) <= Len(keys)
              /\ CalledKeys = SubSeq(keys, 1, Len(CalledKeys))
              /\ pc \in {"summary", "exited"} =>
                   /\ CalledKeys = keys
                   /\ Cardinality(At("return")) = Len(keys)
                   /\ success_count + fail_count = Len(keys)
                   /\ success_count = Cardinality(Returned("True"))
                   /\ fail_count = Cardinality(Returned("False"))

\* C6 witness: preset qwen3-best, whose first download failed and whose second
\* succeeded.
C6_Witness ==
    /\ Exited
    /\ At("download_preset") # {}
    /\ CalledKeys = <<"qwen3-4b-q6", "qwen3-4b-q8">>
    /\ \E i \in Returned("False"), j \in Returned("True") : i < j
    /\ success_count = 1 /\ fail_count = 1

\* C7: one download_model call makes at most one fetch; a fetch that raises
\* makes the call return False without a second attempt, the exception stays
\* inside the call, and the loop goes on to the next key.
C7_NoRetry ==
    /\ \A i \in At("hf_hub_download") :
         /\ i < Len(log)
         /\ log[i + 1].op = "return"
         /\ log[i + 1].key = log[i].key
         /\ log[i + 1].ret = (IF log[i].ret = "raise" THEN "False" ELSE "True")
    /\ \A i \in At("hf_hub_download"), j \in At("hf_hub_download") :
         i < j => \E k \in At("download_model") : i < k /\ k < j
    /\ pc \in {"summary", "exited"} /\ At("download_model") # {} => CalledKeys = queue

\* C7 witness: the first key's fetch raised and the second key was still
\* fetched.
C7_Witness ==
    /\ Exited
    /\ \E i \in At("hf_hub_download"), j \in At("hf_hub_download") :
         i < j /\ log[i].ret = "raise" /\ log[j].ret = "ok"
    /\ exitCode = 1

\* --token when one was given, otherwise HF_TOKEN.
TokenOrEnv == IF args.token # None THEN args.token ELSE env

\* C8, as stated: every call of hf_hub_download and of list_repo_files gets
\* the --token value when one was given and otherwise HF_TOKEN.
C8_TokenEverywhere ==
    \A i \in At("hf_hub_download") \cup At("list_repo_files") : log[i].tok = TokenOrEnv

\* C9: without the client library the process ends with exit code 1 and
\* nothing else happens: no listing, no browse, no mkdir, no download, no
\* summary, whatever the command line.
C9_MissingLibrary ==
    ~HF_HUB_AVAILABLE =>
      /\ log = <<>>
      /\ ~dirMade
      /\ pc \in {"check_hub", "exited"}
      /\ Exited => exitCode = 1
      /\ \A f \in AllFiles : fs[f] # "new"

\* C9 witness: --list with positional keys and no client library, ended.
C9_Witness ==
    /\ ~HF_HUB_AVAILABLE
    /\ Exited
    /\ args.list
    /\ args.presets
    /\ args.models # <<>>

\* C10: download_preset with a name that is not in PRESETS returns (0, 0)
\* without calling download_model or the fetch; main has made the directory,
\* goes on to the summary, reports 0 downloads and exits with code 0.
C10_UnknownPreset ==
    \A p \in At("download_preset") :
        log[p].key \notin DOMAIN PRESETS =>
          /\ At("download_model") = {}
          /\ At("hf_hub_download") = {}
          /\ dirMade
          /\ \E m \in At("mkdir") : m < p
          /\ success_count = 0
          /\ fail_count = 0
          /\ pc \in {"summary", "exited"}
          /\ Exited => (exitCode = 0 /\ log[Len(log)].op = "show_summary")

\* C10 witness: --preset no-such-preset with positional keys, ended.
C10_Witness ==
    /\ Exited
    /\ args.preset = "no-such-preset"
    /\ args.models # <<>>
    /\ At("download_preset") # {}
    /\ exitCode = 0

====
